---- MODULE Spec2Model ----
(***************************************************************************)
(* BidBuddyEngine: the bid lifecycle, its audit history and the payment    *)
(* gateway integration (server/routes, server/storage.ts,                  *)
(* server/stripeService.ts, shared/schema.ts).                             *)
(*                                                                         *)
(* Every route handler is an async function: between two awaits its code   *)
(* runs without interruption, and at every await (a store query or a       *)
(* gateway call) other requests may run.  A handler is therefore a         *)
(* sequence of actions, one per awaited call, each made of the call and    *)
(* the synchronous code that follows it; req[s].pc is the handler's        *)
(* position.  Amounts are integer cents.                                   *)
(***************************************************************************)
EXTENDS Integers, Sequences, FiniteSets, TLC

VARIABLES
    bids,        \* table bids: bid id -> row (the domain is the set of stored ids)
    nextBidId,   \* ids handed out so far + 1 (ids are never reused)
    bidHistory,  \* table bid_history in insertion (createdAt) order
    intents,     \* the gateway's payment intents, in creation order (id = index)
    refunds,     \* the gateway's refunds, in creation order (id = index)
    req,         \* the requests being served: slot -> handler frame
    nreq,        \* requests started so far
    users,       \* table users: user id -> row
    employeeActions  \* table employee_actions in insertion (createdAt) order

vars == <<bids, nextBidId, bidHistory, intents, refunds, req, nreq,
          users, employeeActions>>

----------------------------------------------------------------------------
(* Bounds of the model *)

MaxBids == 1     \* bids created
MaxReqs == 5     \* requests served
MaxApiBids == 2  \* bids created when the whole API is served

(* Two requests at a time are enough for every interleaving of two handlers *)
Slots == {1, 2}
BidIds == 1..MaxBids

(* Users known to the identity provider, by role (requireCustomer,
   requireEmployee have let the request through) *)
Customers == {"custA", "custB"}
Employees == {"emp1"}
Admins == {"admin1"}
(* A user who has signed in and not yet completed onboarding *)
Guests == {"guest1"}

NoUser == "null"
NoId == 0
NoStatus == "null"

----------------------------------------------------------------------------
(* shared/schema.ts *)

Statuses == {"pending", "approved", "rejected", "winning", "outbid", "won", "lost"}

DefaultServiceFee == 21500

(* A text value is a sequence of characters; NoNotes is undefined / NULL. *)
NoNotes == <<"undefined">>
EmptyNotes == <<>>
BlankNotes == <<" ">>
ReasonNotes == <<"r">>
PaddedNotes == <<" ", "r">>
ApprovedNote == <<"Bid approved by employee">>

(* JavaScript truthiness of an optional string: undefined and "" are falsy *)
Truthy(n) == n # NoNotes /\ n # EmptyNotes

RECURSIVE TrimStart(_)
TrimStart(n) == IF n # <<>> /\ Head(n) = " " THEN TrimStart(Tail(n)) ELSE n

RECURSIVE TrimEnd(_)
TrimEnd(n) ==
    IF n # <<>> /\ n[Len(n)] = " " THEN TrimEnd(SubSeq(n, 1, Len(n) - 1)) ELSE n

(* String.prototype.trim *)
Trim(n) == TrimEnd(TrimStart(n))

(* Mutant: the reject route tests !notes only *)
NotesMissing_NoTrim(n) == ~Truthy(n)

(* routes: !notes || !notes.trim() *)
NotesMissing(n) == ~Truthy(n) \/ ~Truthy(Trim(n))

(* A key the request body does not have *)
NoAmount == -1

(* Mutant: the route spreads the validated body last, so that the body's
   status and customerId win *)
NewBidRow_BodyWins(customerId, body) ==
    [customerId            |-> body.customerId,
     lotNumber             |-> body.lotNumber,
     maxBidAmount          |-> body.maxBidAmount,
     serviceFee            |-> IF body.serviceFee = NoAmount THEN DefaultServiceFee
                               ELSE body.serviceFee,
     depositAmount         |-> body.depositAmount,
     totalPaid             |-> body.totalPaid,
     status                |-> IF body.status = NoStatus THEN "pending"
                               ELSE body.status,
     stripePaymentIntentId |-> NoId,
     stripeDepositRefundId |-> NoId,
     stripeFeeRefundId     |-> NoId,
     isRefunded            |-> FALSE,
     approvedBy            |-> NoUser,
     approvedAt            |-> FALSE,
     rejectedBy            |-> NoUser,
     rejectedAt            |-> FALSE,
     notes                 |-> body.notes]

(* The row createBid inserts: {...validatedData, customerId, status:
   "pending", isRefunded: false}.  validatedData holds the keys
   insertBidSchema keeps (lotNumber, maxBidAmount, serviceFee, depositAmount,
   totalPaid, notes, and customerId and status, which the route overrides);
   the columns an insert does not give take the table's defaults. *)
NewBidRow(customerId, body) ==
    [customerId            |-> customerId,
     lotNumber             |-> body.lotNumber,
     maxBidAmount          |-> body.maxBidAmount,
     serviceFee            |-> IF body.serviceFee = NoAmount THEN DefaultServiceFee
                               ELSE body.serviceFee,
     depositAmount         |-> body.depositAmount,
     totalPaid             |-> body.totalPaid,
     status                |-> "pending",
     stripePaymentIntentId |-> NoId,
     stripeDepositRefundId |-> NoId,
     stripeFeeRefundId     |-> NoId,
     isRefunded            |-> FALSE,
     approvedBy            |-> NoUser,
     approvedAt            |-> FALSE,
     rejectedBy            |-> NoUser,
     rejectedAt            |-> FALSE,
     notes                 |-> body.notes]

(* updateBidStatusSchema: status is one of the enum *)
ValidStatusUpdate(status) == status \in Statuses

(* insertBidSchema: lotNumber non-empty, maxBidAmount a positive number;
   customerId, depositAmount and totalPaid (NOT NULL columns without a
   default) are required, status when given is any text *)
ValidBidBody(body) ==
    /\ body.lotNumber # ""
    /\ body.maxBidAmount > 0
    /\ body.customerId # NoUser
    /\ body.depositAmount # NoAmount
    /\ body.totalPaid # NoAmount

NoCode == "null"
NoFile == "null"

(* Table users: the columns the routes read or write.  A row as the sign-in
   creates it has the column defaults: userType customer, active, not
   verified. *)
UserRow(userType, isVerified, companyCode, document) ==
    [userType           |-> userType,
     isActive           |-> TRUE,
     companyCode        |-> companyCode,
     idDocumentUrl      |-> document,
     addressDocumentUrl |-> document,
     isVerified         |-> isVerified]

(* The accounts of a running installation: two onboarded customers, an
   onboarded employee, the super admin (userType set in the database by
   hand) and a user who has only signed in *)
InitUsers ==
    [u \in Customers \cup Employees \cup Admins \cup Guests |->
       IF u \in Customers THEN UserRow("customer", TRUE, NoCode, "file")
       ELSE IF u \in Employees THEN UserRow("employee", TRUE, "0037", NoFile)
       ELSE IF u \in Admins THEN UserRow("super_admin", TRUE, NoCode, NoFile)
       ELSE UserRow("customer", FALSE, NoCode, NoFile)]

----------------------------------------------------------------------------
(* client/src/pages/new-bid: what the form sends *)

(* Number.prototype.toFixed(2) of a non-negative amount given in 1/1000 of a
   cent: round half up to the cent *)
ToFixed2(milliCents) == (milliCents + 500) \div 1000

ClientBody(customer, lot, m) ==
    [lotNumber     |-> lot,
     maxBidAmount  |-> m,
     serviceFee    |-> DefaultServiceFee,
     depositAmount |-> ToFixed2(m * 100),
     totalPaid     |-> ToFixed2(DefaultServiceFee * 1000 + m * 100),
     status        |-> "pending",
     customerId    |-> customer,
     isRefunded    |-> FALSE,
     notes         |-> NoNotes]

LotNumbers == {"LOT-1"}
MaxBidAmounts == {100000}
Bodies(customer) ==
    {ClientBody(customer, l, m) : l \in LotNumbers, m \in MaxBidAmounts}

----------------------------------------------------------------------------
(* server/storage.ts *)

NoBid == [missing |-> TRUE]

getBid(bidId) == IF bidId \in DOMAIN bids THEN bids[bidId] ELSE NoBid

(* UPDATE bids SET ... WHERE id = bidId: no row, no change *)
UpdateRow(bidId, row) ==
    IF bidId \in DOMAIN bids THEN [bids EXCEPT ![bidId] = row] ELSE bids

(* Mutant: the insert replaces the newest entry instead of adding one *)
createBidHistoryEntry_Replace(bidId, previousStatus, newStatus, changedBy, notes) ==
    LET entry == [bidId          |-> bidId,
                  previousStatus |-> previousStatus,
                  newStatus      |-> newStatus,
                  changedBy      |-> changedBy,
                  notes          |-> notes] IN
    IF bidHistory = <<>> THEN <<entry>>
    ELSE [bidHistory EXCEPT ![Len(bidHistory)] = entry]

createBidHistoryEntry(bidId, previousStatus, newStatus, changedBy, notes) ==
    Append(bidHistory,
           [bidId          |-> bidId,
            previousStatus |-> previousStatus,
            newStatus      |-> newStatus,
            changedBy      |-> changedBy,
            notes          |-> notes])

(* ORDER BY created_at DESC: the newest row first *)
Newest(rows) == [i \in 1..Len(rows) |-> rows[Len(rows) + 1 - i]]

getBidHistory(bidId) == Newest(SelectSeq(bidHistory, LAMBDA h : h.bidId = bidId))

(* DELETE FROM bids WHERE id = bidId; bid_history rows go with it
   (references bids.id, onDelete cascade) *)
DeleteRow(bidId) == [b \in DOMAIN bids \ {bidId} |-> bids[b]]

(* Mutant: bid_history.bid_id without onDelete cascade *)
CascadeHistory_Keep(bidId) == bidHistory

CascadeHistory(bidId) == SelectSeq(bidHistory, LAMBDA h : h.bidId # bidId)

NoUserRow == [missing |-> TRUE]

getUser(id) == IF id \in DOMAIN users THEN users[id] ELSE NoUserRow

(* INSERT INTO users ... ON CONFLICT (id) DO UPDATE SET ...userData *)
upsertUser(id, userData) ==
    [u \in DOMAIN users \cup {id} |-> IF u = id THEN userData ELSE users[u]]

(* UPDATE users SET is_active = isActive WHERE id = userId *)
updateUserStatus(userId, isActive) ==
    IF userId \in DOMAIN users
    THEN [users EXCEPT ![userId].isActive = isActive]
    ELSE users

createEmployeeAction(employeeId, actionType, performedBy, notes) ==
    Append(employeeActions,
           [employeeId  |-> employeeId,
            actionType  |-> actionType,
            performedBy |-> performedBy,
            notes       |-> notes])

getEmployeeActions(employeeId) ==
    Newest(SelectSeq(employeeActions, LAMBDA a : a.employeeId = employeeId))

----------------------------------------------------------------------------
(* Handler frames *)

(* A frame holds the handler's position and the locals it still reads:
   req.params.bidId, req.currentUser.id, the request body (status, notes),
   the route's bid (read again after an await only by create-payment-intent),
   the storage method's currentBid (status, notes), the gateway object's id,
   req.params.employeeId (target), the user row a route is about to store
   (data) and, once the handler has answered, the response: its status code,
   its message and, for the routes that answer with rows, the rows. *)
NoPayload == <<"none">>

Idle ==
    [op |-> "none", pc |-> "idle", bidId |-> NoId, user |-> NoUser,
     status |-> NoStatus, notes |-> NoNotes, bid |-> NoBid,
     curStatus |-> NoStatus, curNotes |-> NoNotes, obj |-> NoId,
     target |-> NoUser, data |-> NoUserRow,
     code |-> NoId, msg |-> "", payload |-> NoPayload]

Frame(op, pc, bidId, user) ==
    [Idle EXCEPT !.op = op, !.pc = pc, !.bidId = bidId, !.user = user]

(* res.status(code).json(...): the handler ends; the frame keeps what the
   request was (route, bid id, caller, body) and what it was answered *)
Respond(f, code, msg) ==
    [Idle EXCEPT !.op = f.op, !.pc = "done", !.bidId = f.bidId, !.user = f.user,
                 !.status = f.status, !.notes = f.notes, !.target = f.target,
                 !.code = code, !.msg = msg]

(* res.json(rows) *)
RespondWith(f, rows) == [Respond(f, 200, "") EXCEPT !.payload = rows]

(* A request is taken by the first free slot (slots are interchangeable) *)
CanStart(s) ==
    /\ req[s].pc = "idle"
    /\ nreq < MaxReqs
    /\ \A t \in Slots : t < s => req[t].pc # "idle"

Init ==
    /\ bids = <<>>
    /\ nextBidId = 1
    /\ bidHistory = <<>>
    /\ intents = <<>>
    /\ refunds = <<>>
    /\ req = [s \in Slots |-> Idle]
    /\ nreq = 0
    /\ users = InitUsers
    /\ employeeActions = <<>>

(* The response has been sent; the slot serves the next request *)
Finish(s) ==
    /\ req[s].pc = "done"
    /\ req' = [req EXCEPT ![s] = Idle]
    /\ UNCHANGED <<bids, nextBidId, bidHistory, intents, refunds, nreq, users, employeeActions>>

----------------------------------------------------------------------------
(* POST /api/customer/bids *)

CreateBidUpTo(s, customer, body, maxBids) ==
    /\ CanStart(s)
    /\ nextBidId <= maxBids
    /\ nreq' = nreq + 1
    /\ LET f == Frame("createBid", "start", nextBidId, customer) IN
       IF ~ValidBidBody(body)
       THEN /\ req' = [req EXCEPT ![s] = Respond(f, 400, "Invalid bid data")]
            /\ UNCHANGED <<bids, nextBidId>>
       ELSE \E ok \in BOOLEAN :
              IF ok
              THEN /\ bids' = [b \in DOMAIN bids \cup {nextBidId} |->
                                 IF b = nextBidId THEN NewBidRow(customer, body)
                                 ELSE bids[b]]
                   /\ nextBidId' = nextBidId + 1
                   /\ req' = [req EXCEPT ![s] = Respond(f, 201, "")]
              ELSE /\ req' = [req EXCEPT ![s] =
                                Respond(f, 500, "Failed to create bid")]
                   /\ UNCHANGED <<bids, nextBidId>>
    /\ UNCHANGED <<bidHistory, intents, refunds, users, employeeActions>>

CreateBid(s, customer, body) == CreateBidUpTo(s, customer, body, MaxBids)

----------------------------------------------------------------------------
(* server/storage.ts: the rows the three status writes store *)

(* Mutant: approveBid stores its history note in the bid, as rejectBid does *)
ApprovedRow_WithNote(row, employeeId) ==
    [row EXCEPT !.status = "approved", !.approvedBy = employeeId,
                !.approvedAt = TRUE, !.notes = <<"Bid approved by employee">>]

(* approveBid: set({status: "approved", approvedBy, approvedAt}) *)
ApprovedRow(row, employeeId) ==
    [row EXCEPT !.status = "approved", !.approvedBy = employeeId,
                !.approvedAt = TRUE]

(* Mutant: rejectBid leaves the rejection reason out of the update *)
RejectedRow_NoNotes(row, employeeId, notes) ==
    [row EXCEPT !.status = "rejected", !.rejectedBy = employeeId,
                !.rejectedAt = TRUE]

(* rejectBid: set({status: "rejected", rejectedBy, rejectedAt, notes}) *)
RejectedRow(row, employeeId, notes) ==
    [row EXCEPT !.status = "rejected", !.rejectedBy = employeeId,
                !.rejectedAt = TRUE, !.notes = notes]

(* Mutant: updateBidStatus leaves a rejected bid as it is *)
StatusRow_RejectedStays(row, status, notes, curNotes) ==
    IF row.status = "rejected" THEN row
    ELSE [row EXCEPT !.status = status,
                     !.notes = IF Truthy(notes) THEN notes ELSE curNotes]

(* updateBidStatus: set({status, notes: notes || currentBid.notes}) *)
StatusRow(row, status, notes, curNotes) ==
    [row EXCEPT !.status = status,
                !.notes = IF Truthy(notes) THEN notes ELSE curNotes]

(* The three storage methods share their shape: getBid, update, insert.
   StorageRead is the method's own getBid (a second read after the route's). *)
StorageRead(s, pcRead, pcWrite) ==
    /\ req[s].pc = pcRead
    /\ LET cur == getBid(req[s].bidId) IN
       IF cur = NoBid
       THEN \* the method returns undefined, the route answers res.json(undefined)
            req' = [req EXCEPT ![s] = Respond(req[s], 200, "undefined")]
       ELSE req' = [req EXCEPT ![s] = [@ EXCEPT !.pc = pcWrite,
                                                !.curStatus = cur.status,
                                                !.curNotes = cur.notes]]
    /\ UNCHANGED <<bids, nextBidId, bidHistory, intents, refunds, nreq, users, employeeActions>>

(* The update statement: it may fail (the store throws, the route's catch
   answers 500), and it changes no row when the bid is gone. *)
StorageWrite(s, pcWrite, pcHist, row, failMsg) ==
    /\ req[s].pc = pcWrite
    /\ \E ok \in BOOLEAN :
         IF ok
         THEN /\ bids' = UpdateRow(req[s].bidId, row)
              /\ req' = [req EXCEPT ![s] = [@ EXCEPT !.pc = pcHist]]
         ELSE /\ req' = [req EXCEPT ![s] = Respond(req[s], 500, failMsg)]
              /\ UNCHANGED bids
    /\ UNCHANGED <<nextBidId, bidHistory, intents, refunds, nreq, users, employeeActions>>

(* The insert into bid_history: it fails when the store fails and when the
   bid row is gone (bid_id references bids.id). *)
StorageHistory(s, pcHist, newStatus, notes, failMsg) ==
    /\ req[s].pc = pcHist
    /\ \E ok \in BOOLEAN :
         IF ok /\ req[s].bidId \in DOMAIN bids
         THEN /\ bidHistory' = createBidHistoryEntry(req[s].bidId, req[s].curStatus,
                                                     newStatus, req[s].user, notes)
              /\ req' = [req EXCEPT ![s] = Respond(req[s], 200, "")]
         ELSE /\ req' = [req EXCEPT ![s] = Respond(req[s], 500, failMsg)]
              /\ UNCHANGED bidHistory
    /\ UNCHANGED <<bids, nextBidId, intents, refunds, nreq, users, employeeActions>>

----------------------------------------------------------------------------
(* POST /api/employee/bids/:bidId/approve *)

(* Mutant: the approve route forgets its status check *)
ApproveGuard_NoCheck(bid) == TRUE

ApproveGuard(bid) == bid.status = "pending"

ApproveStart(s, employee, bidId) ==
    /\ CanStart(s)
    /\ nreq' = nreq + 1
    /\ LET f == Frame("approve", "approve_read", bidId, employee)
           bid == getBid(bidId) IN
       req' = [req EXCEPT ![s] =
                 IF bid = NoBid THEN Respond(f, 404, "Bid not found")
                 ELSE IF ~ApproveGuard(bid)
                      THEN Respond(f, 400, "Only pending bids can be approved")
                      ELSE f]
    /\ UNCHANGED <<bids, nextBidId, bidHistory, intents, refunds, users, employeeActions>>

ApproveRead(s) == StorageRead(s, "approve_read", "approve_write")

ApproveWrite(s) ==
    StorageWrite(s, "approve_write", "approve_hist",
                 ApprovedRow(getBid(req[s].bidId), req[s].user),
                 "Failed to approve bid")

ApproveHistory(s) ==
    StorageHistory(s, "approve_hist", "approved", ApprovedNote,
                   "Failed to approve bid")

----------------------------------------------------------------------------
(* POST /api/employee/bids/:bidId/reject *)

RejectGuard(bid) == bid.status = "pending"

RejectStart(s, employee, bidId, notes) ==
    /\ CanStart(s)
    /\ nreq' = nreq + 1
    /\ IF NotesMissing(notes)
       THEN \* answered before the bid is read
            req' = [req EXCEPT ![s] =
                      Respond([Frame("reject", "start", bidId, employee)
                                 EXCEPT !.notes = notes],
                              400, "Rejection reason is required")]
       ELSE LET f == [Frame("reject", "reject_read", bidId, employee)
                        EXCEPT !.notes = notes]
                bid == getBid(bidId) IN
            req' = [req EXCEPT ![s] =
                      IF bid = NoBid THEN Respond(f, 404, "Bid not found")
                      ELSE IF ~RejectGuard(bid)
                           THEN Respond(f, 400, "Only pending bids can be rejected")
                           ELSE f]
    /\ UNCHANGED <<bids, nextBidId, bidHistory, intents, refunds, users, employeeActions>>

RejectRead(s) == StorageRead(s, "reject_read", "reject_write")

RejectWrite(s) ==
    StorageWrite(s, "reject_write", "reject_hist",
                 RejectedRow(getBid(req[s].bidId), req[s].user, req[s].notes),
                 "Failed to reject bid")

RejectHistory(s) ==
    StorageHistory(s, "reject_hist", "rejected", req[s].notes,
                   "Failed to reject bid")

----------------------------------------------------------------------------
(* PATCH /api/employee/bids/:bidId/status *)

StatusStart(s, employee, bidId, status, notes) ==
    /\ CanStart(s)
    /\ nreq' = nreq + 1
    /\ IF ~ValidStatusUpdate(status)
       THEN \* the schema rejects the body before the bid is read
            req' = [req EXCEPT ![s] =
                      Respond([Frame("status", "start", bidId, employee)
                                 EXCEPT !.status = status, !.notes = notes],
                              400, "Invalid status update data")]
       ELSE LET f == [Frame("status", "status_read", bidId, employee)
                        EXCEPT !.status = status, !.notes = notes]
                bid == getBid(bidId) IN
            req' = [req EXCEPT ![s] =
                      IF bid = NoBid THEN Respond(f, 404, "Bid not found")
                      ELSE f]
    /\ UNCHANGED <<bids, nextBidId, bidHistory, intents, refunds, users, employeeActions>>

StatusRead(s) == StorageRead(s, "status_read", "status_write")

(* Mutant: the update is skipped when the status is no longer the one read *)
StatusWrite_IfAsRead(s) ==
    StorageWrite(s, "status_write", "status_hist",
                 LET cur == getBid(req[s].bidId) IN
                   IF cur # NoBid /\ cur.status # req[s].curStatus
                   THEN cur
                   ELSE StatusRow(cur, req[s].status, req[s].notes,
                                  req[s].curNotes),
                 "Failed to update bid status")

StatusWrite(s) ==
    StorageWrite(s, "status_write", "status_hist",
                 StatusRow(getBid(req[s].bidId), req[s].status, req[s].notes,
                           req[s].curNotes),
                 "Failed to update bid status")

StatusHistory(s) ==
    StorageHistory(s, "status_hist", req[s].status, req[s].notes,
                   "Failed to update bid status")

----------------------------------------------------------------------------
(* server/stripeService.ts and the two payment routes *)

(* updateBidPaymentInfo(bidId, {stripePaymentIntentId}) *)
IntentRow(row, intentId) == [row EXCEPT !.stripePaymentIntentId = intentId]

(* Mutant: the fee-refund reference is left out of the update *)
RefundedRow_DepositOnly(row, refundId) ==
    [row EXCEPT !.stripeDepositRefundId = refundId, !.isRefunded = TRUE]

(* updateBidPaymentInfo(bidId, {stripeDepositRefundId, stripeFeeRefundId,
   isRefunded: true}) *)
RefundedRow(row, refundId) ==
    [row EXCEPT !.stripeDepositRefundId = refundId,
                !.stripeFeeRefundId = refundId,
                !.isRefunded = TRUE]

(* createPaymentIntent: amount in major units to cents, Math.round(amount * 100);
   the stored amounts are already counted in cents here *)
IntentParams(bid, bidId) ==
    [amount |-> bid.totalPaid, currency |-> "usd", bidId |-> bidId,
     customerId |-> bid.customerId, lotNumber |-> bid.lotNumber]

(* createRefund(paymentIntentId): no amount, the full charge *)
RefundParams(paymentIntentId) == [payment_intent |-> paymentIntentId]

(* Mutant: the route answers every customer *)
OwnerGuard_NoCheck(bid, customer) == TRUE

(* bid.customerId !== req.currentUser.id is Forbidden *)
OwnerGuard(bid, customer) == bid.customerId = customer

(* POST /api/customer/bids/:bidId/create-payment-intent *)
IntentStart(s, customer, bidId) ==
    /\ CanStart(s)
    /\ nreq' = nreq + 1
    /\ LET f == Frame("intent", "intent_create", bidId, customer)
           bid == getBid(bidId) IN
       req' = [req EXCEPT ![s] =
                 IF bid = NoBid THEN Respond(f, 404, "Bid not found")
                 ELSE IF ~OwnerGuard(bid, customer)
                      THEN Respond(f, 403, "Forbidden")
                      ELSE IF bid.stripePaymentIntentId # NoId
                           THEN [f EXCEPT !.pc = "intent_retrieve",
                                          !.obj = bid.stripePaymentIntentId]
                           ELSE [f EXCEPT !.bid = bid]]
    /\ UNCHANGED <<bids, nextBidId, bidHistory, intents, refunds, users, employeeActions>>

(* stripeService.getPaymentIntent, then res.json({clientSecret}) *)
IntentRetrieve(s) ==
    /\ req[s].pc = "intent_retrieve"
    /\ \E ok \in BOOLEAN :
         req' = [req EXCEPT ![s] =
                   IF ok /\ req[s].obj \in DOMAIN intents
                   THEN Respond(req[s], 200, "clientSecret")
                   ELSE Respond(req[s], 500, "Failed to create payment intent")]
    /\ UNCHANGED <<bids, nextBidId, bidHistory, intents, refunds, nreq, users, employeeActions>>

(* stripeService.createPaymentIntent *)
IntentCreate(s) ==
    /\ req[s].pc = "intent_create"
    /\ \E ok \in BOOLEAN :
         IF ok
         THEN /\ intents' = Append(intents, IntentParams(req[s].bid, req[s].bidId))
              /\ req' = [req EXCEPT ![s] = [@ EXCEPT !.pc = "intent_write",
                                                     !.obj = Len(intents) + 1]]
         ELSE /\ req' = [req EXCEPT ![s] =
                           Respond(req[s], 500, "Failed to create payment intent")]
              /\ UNCHANGED intents
    /\ UNCHANGED <<bids, nextBidId, bidHistory, refunds, nreq, users, employeeActions>>

(* Mutant: the route saves the row it read before the gateway call *)
IntentWrite_WholeRow(s) ==
    /\ req[s].pc = "intent_write"
    /\ \E ok \in BOOLEAN :
         IF ok
         THEN /\ bids' = UpdateRow(req[s].bidId, IntentRow(req[s].bid, req[s].obj))
              /\ req' = [req EXCEPT ![s] = Respond(req[s], 200, "clientSecret")]
         ELSE /\ req' = [req EXCEPT ![s] =
                           Respond(req[s], 500, "Failed to create payment intent")]
              /\ UNCHANGED bids
    /\ UNCHANGED <<nextBidId, bidHistory, intents, refunds, nreq, users, employeeActions>>

(* storage.updateBidPaymentInfo, then res.json({clientSecret}) *)
IntentWrite(s) ==
    /\ req[s].pc = "intent_write"
    /\ \E ok \in BOOLEAN :
         IF ok
         THEN /\ bids' = UpdateRow(req[s].bidId,
                                   IntentRow(getBid(req[s].bidId), req[s].obj))
              /\ req' = [req EXCEPT ![s] = Respond(req[s], 200, "clientSecret")]
         ELSE /\ req' = [req EXCEPT ![s] =
                           Respond(req[s], 500, "Failed to create payment intent")]
              /\ UNCHANGED bids
    /\ UNCHANGED <<nextBidId, bidHistory, intents, refunds, nreq, users, employeeActions>>

(* POST /api/employee/bids/:bidId/refund: the route's two guards *)
RefundStatusGuard(bid) == bid.status = "outbid" \/ bid.status = "lost"

(* Mutant: the route forgets the already-refunded check *)
RefundFlagGuard_NoCheck(bid) == TRUE

RefundFlagGuard(bid) == ~bid.isRefunded

RefundStart(s, employee, bidId) ==
    /\ CanStart(s)
    /\ nreq' = nreq + 1
    /\ LET f == Frame("refund", "refund_read", bidId, employee)
           bid == getBid(bidId) IN
       req' = [req EXCEPT ![s] =
                 IF bid = NoBid THEN Respond(f, 404, "Bid not found")
                 ELSE IF ~RefundStatusGuard(bid)
                      THEN Respond(f, 400, "Only outbid or lost bids can be refunded")
                      ELSE IF ~RefundFlagGuard(bid)
                           THEN Respond(f, 400, "Bid has already been refunded")
                           ELSE f]
    /\ UNCHANGED <<bids, nextBidId, bidHistory, intents, refunds, users, employeeActions>>

(* What the route's catch answers to an error thrown by refundBidPayment:
   res.status(500).json({message: error.message || ...}) *)
RefundErrorCode == 500

(* refundBidPayment: its own getBid and its three throws *)
RefundRead(s) ==
    /\ req[s].pc = "refund_read"
    /\ LET bid == getBid(req[s].bidId) IN
       req' = [req EXCEPT ![s] =
                 IF bid = NoBid THEN Respond(@, RefundErrorCode, "Bid not found")
                 ELSE IF bid.stripePaymentIntentId = NoId
                      THEN Respond(@, RefundErrorCode, "No payment found for this bid")
                      ELSE IF bid.isRefunded
                           THEN Respond(@, RefundErrorCode,
                                        "This bid has already been refunded")
                           ELSE [@ EXCEPT !.pc = "refund_gateway",
                                          !.obj = bid.stripePaymentIntentId]]
    /\ UNCHANGED <<bids, nextBidId, bidHistory, intents, refunds, nreq, users, employeeActions>>

(* Mutant: refundBidPayment goes on to its update when createRefund fails *)
RefundGateway_Swallowed(s) ==
    /\ req[s].pc = "refund_gateway"
    /\ \E ok \in BOOLEAN :
         IF ok
         THEN /\ refunds' = Append(refunds, RefundParams(req[s].obj))
              /\ req' = [req EXCEPT ![s] = [@ EXCEPT !.pc = "refund_write",
                                                     !.obj = Len(refunds) + 1]]
         ELSE /\ req' = [req EXCEPT ![s] = [@ EXCEPT !.pc = "refund_write",
                                                     !.obj = NoId]]
              /\ UNCHANGED refunds
    /\ UNCHANGED <<bids, nextBidId, bidHistory, intents, nreq, users, employeeActions>>

(* createRefund: stripe.refunds.create *)
RefundGateway(s) ==
    /\ req[s].pc = "refund_gateway"
    /\ \E ok \in BOOLEAN :
         IF ok
         THEN /\ refunds' = Append(refunds, RefundParams(req[s].obj))
              /\ req' = [req EXCEPT ![s] = [@ EXCEPT !.pc = "refund_write",
                                                     !.obj = Len(refunds) + 1]]
         ELSE /\ req' = [req EXCEPT ![s] =
                           Respond(req[s], RefundErrorCode, "Failed to process refund")]
              /\ UNCHANGED refunds
    /\ UNCHANGED <<bids, nextBidId, bidHistory, intents, nreq, users, employeeActions>>

(* updateBidPaymentInfo with the refund's id, then the route's 200 *)
RefundWrite(s) ==
    /\ req[s].pc = "refund_write"
    /\ \E ok \in BOOLEAN :
         IF ok
         THEN /\ bids' = UpdateRow(req[s].bidId,
                                   RefundedRow(getBid(req[s].bidId), req[s].obj))
              /\ req' = [req EXCEPT ![s] =
                           Respond(req[s], 200, "Refund processed successfully")]
         ELSE /\ req' = [req EXCEPT ![s] =
                           Respond(req[s], RefundErrorCode, "Failed to process refund")]
              /\ UNCHANGED bids
    /\ UNCHANGED <<nextBidId, bidHistory, intents, refunds, nreq, users, employeeActions>>

----------------------------------------------------------------------------
(* DELETE /api/employee/bids/:bidId *)

DeleteGuard(bid) == bid.status = "won" \/ bid.status = "lost"

DeleteStart(s, employee, bidId) ==
    /\ CanStart(s)
    /\ nreq' = nreq + 1
    /\ LET f == Frame("delete", "delete_write", bidId, employee)
           bid == getBid(bidId) IN
       req' = [req EXCEPT ![s] =
                 IF bid = NoBid THEN Respond(f, 404, "Bid not found")
                 ELSE IF ~DeleteGuard(bid)
                      THEN Respond(f, 400, "Only won or lost bids can be deleted")
                      ELSE f]
    /\ UNCHANGED <<bids, nextBidId, bidHistory, intents, refunds, users, employeeActions>>

DeleteWrite(s) ==
    /\ req[s].pc = "delete_write"
    /\ \E ok \in BOOLEAN :
         IF ok
         THEN /\ bids' = DeleteRow(req[s].bidId)
              /\ bidHistory' = CascadeHistory(req[s].bidId)
              /\ req' = [req EXCEPT ![s] = Respond(req[s], 200, "Bid deleted successfully")]
         ELSE /\ req' = [req EXCEPT ![s] = Respond(req[s], 500, "Failed to delete bid")]
              /\ UNCHANGED <<bids, bidHistory>>
    /\ UNCHANGED <<nextBidId, intents, refunds, nreq, users, employeeActions>>

----------------------------------------------------------------------------
(* server/replitAuth.ts: the role middleware.  The request reaches the
   handler when the caller's user row exists and carries the route's role. *)

requireRole(u, role) == u \in DOMAIN users /\ users[u].userType = role

requireCustomer(u) == requireRole(u, "customer")
requireEmployee(u) == requireRole(u, "employee")
requireSuperAdmin(u) == requireRole(u, "super_admin")

----------------------------------------------------------------------------
(* POST /api/onboarding/complete *)

COMPANY_CODE == "0037"

(* Mutant: the route keeps the stored userType of a user who has one *)
OnboardedRow_KeepRole(user, userType, companyCode) ==
    IF userType = "employee"
    THEN [user EXCEPT !.companyCode = companyCode, !.isVerified = TRUE]
    ELSE [user EXCEPT !.idDocumentUrl = "file", !.addressDocumentUrl = "file",
                      !.isVerified = TRUE]

(* {...user, ...updateData} *)
OnboardedRow(user, userType, companyCode) ==
    IF userType = "employee"
    THEN [user EXCEPT !.userType = userType, !.companyCode = companyCode,
                      !.isVerified = TRUE]
    ELSE [user EXCEPT !.userType = userType, !.idDocumentUrl = "file",
                      !.addressDocumentUrl = "file", !.isVerified = TRUE]

(* The route's three validations, then getUser *)
OnboardStart(s, userId, userType, companyCode, hasFiles) ==
    /\ CanStart(s)
    /\ nreq' = nreq + 1
    /\ LET f == [Frame("onboard", "onboard_upsert", NoId, userId)
                   EXCEPT !.status = userType]
           user == getUser(userId) IN
       req' = [req EXCEPT ![s] =
                 IF userType \notin {"customer", "employee"}
                 THEN Respond(f, 400, "Invalid user type")
                 ELSE IF userType = "employee" /\ companyCode # COMPANY_CODE
                 THEN Respond(f, 400, "Invalid company code")
                 ELSE IF userType = "customer" /\ ~hasFiles
                 THEN Respond(f, 400, "ID and address documents are required")
                 ELSE IF user = NoUserRow
                 THEN Respond(f, 404, "User not found")
                 ELSE [f EXCEPT !.data = OnboardedRow(user, userType, companyCode)]]
    /\ UNCHANGED <<bids, nextBidId, bidHistory, intents, refunds,
                   users, employeeActions>>

(* storage.upsertUser({...user, ...updateData}), then res.json(updatedUser) *)
OnboardUpsert(s) ==
    /\ req[s].pc = "onboard_upsert"
    /\ \E ok \in BOOLEAN :
         IF ok
         THEN /\ users' = upsertUser(req[s].user, req[s].data)
              /\ req' = [req EXCEPT ![s] = Respond(req[s], 200, "")]
         ELSE /\ req' = [req EXCEPT ![s] =
                           Respond(req[s], 500, "Failed to complete onboarding")]
              /\ UNCHANGED users
    /\ UNCHANGED <<bids, nextBidId, bidHistory, intents, refunds, nreq,
                   employeeActions>>

----------------------------------------------------------------------------
(* DELETE /api/admin/employees/:employeeId *)

(* Mutant: the route forgets to test the target's userType *)
EmployeeGuard_NoCheck(employee) == TRUE

EmployeeGuard(employee) == employee.userType = "employee"

DeactivatedNote == <<"Employee account deactivated by super admin">>

EmployeeDeleteStart(s, superAdminId, employeeId) ==
    /\ CanStart(s)
    /\ nreq' = nreq + 1
    /\ LET f == [Frame("employeeDelete", "employee_status", NoId, superAdminId)
                   EXCEPT !.target = employeeId]
           employee == getUser(employeeId) IN
       req' = [req EXCEPT ![s] =
                 IF employee = NoUserRow
                 THEN Respond(f, 404, "Employee not found")
                 ELSE IF ~EmployeeGuard(employee)
                      THEN Respond(f, 400, "Can only delete employee accounts")
                      ELSE f]
    /\ UNCHANGED <<bids, nextBidId, bidHistory, intents, refunds,
                   users, employeeActions>>

(* storage.updateUserStatus(employeeId, false) *)
EmployeeStatus(s) ==
    /\ req[s].pc = "employee_status"
    /\ \E ok \in BOOLEAN :
         IF ok
         THEN /\ users' = updateUserStatus(req[s].target, FALSE)
              /\ req' = [req EXCEPT ![s] = [@ EXCEPT !.pc = "employee_log"]]
         ELSE /\ req' = [req EXCEPT ![s] =
                           Respond(req[s], 500, "Failed to delete employee")]
              /\ UNCHANGED users
    /\ UNCHANGED <<bids, nextBidId, bidHistory, intents, refunds, nreq,
                   employeeActions>>

(* storage.createEmployeeAction({employeeId, actionType: "deleted",
   performedBy, notes}), then the route's 200 *)
EmployeeLog(s) ==
    /\ req[s].pc = "employee_log"
    /\ \E ok \in BOOLEAN :
         IF ok
         THEN /\ employeeActions' =
                   createEmployeeAction(req[s].target, "deleted", req[s].user,
                                        DeactivatedNote)
              /\ req' = [req EXCEPT ![s] =
                           Respond(req[s], 200, "Employee account deleted successfully")]
         ELSE /\ req' = [req EXCEPT ![s] =
                           Respond(req[s], 500, "Failed to delete employee")]
              /\ UNCHANGED employeeActions
    /\ UNCHANGED <<bids, nextBidId, bidHistory, intents, refunds, nreq, users>>

----------------------------------------------------------------------------
(* GET /api/customer/bids/:bidId and GET /api/customer/bids/:bidId/history *)

GetBid(s, customer, bidId) ==
    /\ CanStart(s)
    /\ nreq' = nreq + 1
    /\ LET f == Frame("getBid", "start", bidId, customer)
           bid == getBid(bidId) IN
       req' = [req EXCEPT ![s] =
                 IF bid = NoBid THEN Respond(f, 404, "Bid not found")
                 ELSE IF ~OwnerGuard(bid, customer)
                      THEN Respond(f, 403, "Forbidden")
                      ELSE RespondWith(f, bid)]
    /\ UNCHANGED <<bids, nextBidId, bidHistory, intents, refunds,
                   users, employeeActions>>

HistoryStart(s, customer, bidId) ==
    /\ CanStart(s)
    /\ nreq' = nreq + 1
    /\ LET f == Frame("history", "history_read", bidId, customer)
           bid == getBid(bidId) IN
       req' = [req EXCEPT ![s] =
                 IF bid = NoBid THEN Respond(f, 404, "Bid not found")
                 ELSE IF ~OwnerGuard(bid, customer)
                      THEN Respond(f, 403, "Forbidden")
                      ELSE f]
    /\ UNCHANGED <<bids, nextBidId, bidHistory, intents, refunds,
                   users, employeeActions>>

(* storage.getBidHistory(bidId), then res.json(history) *)
HistoryRead(s) ==
    /\ req[s].pc = "history_read"
    /\ req' = [req EXCEPT ![s] = RespondWith(req[s], getBidHistory(req[s].bidId))]
    /\ UNCHANGED <<bids, nextBidId, bidHistory, intents, refunds, nreq,
                   users, employeeActions>>

----------------------------------------------------------------------------
(* The requests clients send *)

(* custA places the bids; custB is another customer *)
Bidders == {"custA"}
RejectNotes == {NoNotes, EmptyNotes, BlankNotes, ReasonNotes, PaddedNotes}
(* Bodies of the status update: a refundable and deletable target, a
   deletable one, a return to pending with a note, and a value outside the
   enum *)
StatusBodies ==
    {[status |-> "lost", notes |-> NoNotes],
     [status |-> "won", notes |-> NoNotes],
     [status |-> "pending", notes |-> ReasonNotes],
     [status |-> "cancelled", notes |-> NoNotes]}

Step(s) ==
    \/ \E c \in Bidders : \E body \in Bodies(c) : CreateBid(s, c, body)
    \/ \E c \in Customers, b \in BidIds : IntentStart(s, c, b)
    \/ IntentRetrieve(s)
    \/ IntentCreate(s)
    \/ IntentWrite(s)
    \/ \E e \in Employees, b \in BidIds : RefundStart(s, e, b)
    \/ RefundRead(s)
    \/ RefundGateway(s)
    \/ RefundWrite(s)
    \/ \E e \in Employees, b \in BidIds : ApproveStart(s, e, b)
    \/ ApproveRead(s)
    \/ ApproveWrite(s)
    \/ ApproveHistory(s)
    \/ \E e \in Employees, b \in BidIds, n \in RejectNotes : RejectStart(s, e, b, n)
    \/ RejectRead(s)
    \/ RejectWrite(s)
    \/ RejectHistory(s)
    \/ \E e \in Employees, b \in BidIds, sb \in StatusBodies :
          StatusStart(s, e, b, sb.status, sb.notes)
    \/ StatusRead(s)
    \/ StatusWrite(s)
    \/ StatusHistory(s)
    \/ \E e \in Employees, b \in BidIds : DeleteStart(s, e, b)
    \/ DeleteWrite(s)
    \/ Finish(s)

(* Requests served concurrently *)
Next == \E s \in Slots : Step(s)

Spec == Init /\ [][Next]_vars

(* Requests served one at a time *)
NextSeq == Step(1)

SpecSeq == Init /\ [][NextSeq]_vars

----------------------------------------------------------------------------
(* The customer's routes, one request at a time: every body a client can
   send to create-bid, two customers, two bids, the owner-only reads and the
   payment intent; an employee's approve gives the bids a history *)

ApiBidIds == 1..MaxApiBids

OtherCustomer(c) == CHOOSE x \in Customers : x # c

(* A body made by hand: amounts that are not the form's, a status, another
   customer's id, the refunded flag and notes *)
TamperedBody(customer) ==
    [lotNumber     |-> "LOT-1",
     maxBidAmount  |-> 100000,
     serviceFee    |-> NoAmount,
     depositAmount |-> 100,
     totalPaid     |-> 100,
     status        |-> "won",
     customerId    |-> OtherCustomer(customer),
     isRefunded    |-> TRUE,
     notes         |-> ReasonNotes]

(* The body of the spec's scenario: lotNumber and maxBidAmount only *)
BareBody ==
    [lotNumber     |-> "LOT-1",
     maxBidAmount  |-> 100000,
     serviceFee    |-> NoAmount,
     depositAmount |-> NoAmount,
     totalPaid     |-> NoAmount,
     status        |-> NoStatus,
     customerId    |-> NoUser,
     isRefunded    |-> FALSE,
     notes         |-> NoNotes]

ApiBodies(customer) == Bodies(customer) \cup {TamperedBody(customer), BareBody}

CustomerStep(s) ==
    \/ \E c \in Customers : \E body \in ApiBodies(c) :
          requireCustomer(c) /\ CreateBidUpTo(s, c, body, MaxApiBids)
    \/ \E c \in Customers, b \in ApiBidIds : requireCustomer(c) /\ GetBid(s, c, b)
    \/ \E c \in Customers, b \in ApiBidIds :
          requireCustomer(c) /\ HistoryStart(s, c, b)
    \/ HistoryRead(s)
    \/ \E c \in Customers, b \in ApiBidIds :
          requireCustomer(c) /\ IntentStart(s, c, b)
    \/ IntentRetrieve(s)
    \/ IntentCreate(s)
    \/ IntentWrite(s)
    \/ \E e \in Employees, b \in ApiBidIds :
          requireEmployee(e) /\ ApproveStart(s, e, b)
    \/ ApproveRead(s)
    \/ ApproveWrite(s)
    \/ ApproveHistory(s)
    \/ Finish(s)

NextCustomer == CustomerStep(1)

SpecCustomer == Init /\ [][NextCustomer]_vars

----------------------------------------------------------------------------
(* The employee's status update and delete and the super admin's employee
   deactivation, one request at a time, on two bids *)

EmployeeIds == DOMAIN users \cup {"nobody"}

EmployeeStep(s) ==
    \/ \E c \in Bidders : \E body \in Bodies(c) :
          requireCustomer(c) /\ CreateBidUpTo(s, c, body, MaxApiBids)
    \/ \E e \in Employees, b \in ApiBidIds, sb \in StatusBodies :
          requireEmployee(e) /\ StatusStart(s, e, b, sb.status, sb.notes)
    \/ StatusRead(s)
    \/ StatusWrite(s)
    \/ StatusHistory(s)
    \/ \E e \in Employees, b \in ApiBidIds :
          requireEmployee(e) /\ DeleteStart(s, e, b)
    \/ DeleteWrite(s)
    \/ \E a \in Admins, e \in EmployeeIds :
          requireSuperAdmin(a) /\ EmployeeDeleteStart(s, a, e)
    \/ EmployeeStatus(s)
    \/ EmployeeLog(s)
    \/ Finish(s)

NextEmployee == EmployeeStep(1)

SpecEmployee == Init /\ [][NextEmployee]_vars

----------------------------------------------------------------------------
(* The status update with every target status, one request at a time *)

(* Every status of the enum without notes, one with notes, one outside the
   enum *)
ApiStatusBodies ==
    {[status |-> st, notes |-> NoNotes] : st \in Statuses \cup {"cancelled"}}
    \cup {[status |-> "winning", notes |-> ReasonNotes]}

StatusStep(s) ==
    \/ \E c \in Bidders : \E body \in Bodies(c) : CreateBid(s, c, body)
    \/ \E e \in Employees, b \in BidIds, sb \in ApiStatusBodies :
          StatusStart(s, e, b, sb.status, sb.notes)
    \/ StatusRead(s)
    \/ StatusWrite(s)
    \/ StatusHistory(s)
    \/ Finish(s)

NextStatus == StatusStep(1)

SpecStatus == Init /\ [][NextStatus]_vars

----------------------------------------------------------------------------
(* The account routes, one request at a time *)

OnboardBodies ==
    {[userType |-> "customer", companyCode |-> NoCode, hasFiles |-> TRUE],
     [userType |-> "customer", companyCode |-> NoCode, hasFiles |-> FALSE],
     [userType |-> "employee", companyCode |-> COMPANY_CODE, hasFiles |-> FALSE],
     [userType |-> "employee", companyCode |-> "0000", hasFiles |-> FALSE],
     [userType |-> "employee", companyCode |-> NoCode, hasFiles |-> FALSE],
     [userType |-> "super_admin", companyCode |-> NoCode, hasFiles |-> FALSE]}

AccountStep(s) ==
    \/ \E u \in DOMAIN users \cup {"nobody"}, ob \in OnboardBodies :
          OnboardStart(s, u, ob.userType, ob.companyCode, ob.hasFiles)
    \/ OnboardUpsert(s)
    \/ \E a \in DOMAIN users, e \in EmployeeIds :
          requireSuperAdmin(a) /\ EmployeeDeleteStart(s, a, e)
    \/ EmployeeStatus(s)
    \/ EmployeeLog(s)
    \/ Finish(s)

NextAccounts == AccountStep(1)

SpecAccounts == Init /\ [][NextAccounts]_vars

----------------------------------------------------------------------------
(* The routes that write bid history, on two bids, one request at a time *)

HistoryStatusBodies ==
    {[status |-> "lost", notes |-> NoNotes],
     [status |-> "pending", notes |-> ReasonNotes]}

HistoryStep(s) ==
    \/ \E c \in Bidders : \E body \in Bodies(c) :
          requireCustomer(c) /\ CreateBidUpTo(s, c, body, MaxApiBids)
    \/ \E e \in Employees, b \in ApiBidIds :
          requireEmployee(e) /\ ApproveStart(s, e, b)
    \/ ApproveRead(s)
    \/ ApproveWrite(s)
    \/ ApproveHistory(s)
    \/ \E e \in Employees, b \in ApiBidIds :
          requireEmployee(e) /\ RejectStart(s, e, b, ReasonNotes)
    \/ RejectRead(s)
    \/ RejectWrite(s)
    \/ RejectHistory(s)
    \/ \E e \in Employees, b \in ApiBidIds, sb \in HistoryStatusBodies :
          requireEmployee(e) /\ StatusStart(s, e, b, sb.status, sb.notes)
    \/ StatusRead(s)
    \/ StatusWrite(s)
    \/ StatusHistory(s)
    \/ \E e \in Employees, b \in ApiBidIds :
          requireEmployee(e) /\ DeleteStart(s, e, b)
    \/ DeleteWrite(s)
    \/ Finish(s)

NextHistory == HistoryStep(1)

SpecHistory == Init /\ [][NextHistory]_vars

----------------------------------------------------------------------------
(* Properties *)

(* The step in which slot s takes a request of route op *)
Starts(s, op) == req[s].pc = "idle" /\ req'[s].pc # "idle" /\ req'[s].op = op

Store == <<bids, nextBidId, bidHistory>>
Gateway == <<intents, refunds>>
Accounts == <<users, employeeActions>>

Exists(b) == b \in DOMAIN bids

(* The gateway's refunds and intents made for bid b *)
RefundsOfBid(b) ==
    {r \in DOMAIN refunds : intents[refunds[r].payment_intent].bidId = b}
IntentsOfBid(b) == {i \in DOMAIN intents : intents[i].bidId = b}

(* C1: under every interleaving of refund requests the gateway creates at
   most one refund for a bid over the whole execution. *)
C1_AtMostOneRefundPerBid ==
    \A b \in BidIds : Cardinality(RefundsOfBid(b)) <= 1

(* C2: create-payment-intent is idempotent per bid: under every sequence or
   interleaving of the owner's requests the gateway creates at most one
   intent for a bid, and a request that finds an intent id stored only
   retrieves that intent. *)
C2_AtMostOneIntentPerBid ==
    /\ \A b \in BidIds : Cardinality(IntentsOfBid(b)) <= 1
    /\ \A s \in Slots :
         req[s].pc = "intent_retrieve" => /\ req[s].obj \in DOMAIN intents
                                          /\ intents[req[s].obj].bidId = req[s].bidId

(* C3: a refund request on a bid whose status is neither outbid nor lost, or
   whose isRefunded flag is set, is answered 400, and changes neither the
   bid, nor the history, nor the gateway. *)
C3_RefundRejected ==
    [][\A s \in Slots :
         LET b == req'[s].bidId IN
         (/\ Starts(s, "refund")
          /\ Exists(b)
          /\ (bids[b].status \notin {"outbid", "lost"} \/ bids[b].isRefunded))
         => /\ req'[s].pc = "done"
            /\ req'[s].code = 400
            /\ req'[s].msg \in {"Only outbid or lost bids can be refunded",
                                "Bid has already been refunded"}
            /\ UNCHANGED <<Store, Gateway>>]_vars

C3_Witness ==
    \E s \in Slots :
       /\ req[s].op = "refund" /\ req[s].pc = "done" /\ req[s].code = 400
       /\ req[s].msg = "Only outbid or lost bids can be refunded"
       /\ Exists(req[s].bidId)
       /\ bids[req[s].bidId].status = "won"
       /\ refunds = <<>>

(* The two refund references of every bid are equal, and set exactly when
   its isRefunded flag is *)
RefundRefsAgree ==
    \A b \in DOMAIN bids :
       /\ bids[b].stripeDepositRefundId = bids[b].stripeFeeRefundId
       /\ bids[b].isRefunded <=> bids[b].stripeDepositRefundId # NoId

(* C4: a successful refund sets isRefunded and stores the id of the refund
   the gateway returned under both refund references; a refund request on a
   refunded bid whose status is still outbid or lost is answered "already
   refunded"; in every state the two references of a bid are equal, and set
   exactly when isRefunded is. *)
C4_RefundSetsBothRefs ==
    /\ []RefundRefsAgree
    /\ [][\A s \in Slots :
            LET b == req[s].bidId IN
            /\ (req[s].pc = "refund_write" /\ req'[s].code = 200 /\ Exists(b))
               => /\ req[s].obj \in DOMAIN refunds
                  /\ bids'[b].isRefunded
                  /\ bids'[b].stripeDepositRefundId = req[s].obj
                  /\ bids'[b].stripeFeeRefundId = req[s].obj
            /\ (/\ Starts(s, "refund")
                /\ Exists(req'[s].bidId)
                /\ bids[req'[s].bidId].status \in {"outbid", "lost"}
                /\ bids[req'[s].bidId].isRefunded)
               => /\ req'[s].pc = "done"
                  /\ req'[s].code = 400
                  /\ req'[s].msg = "Bid has already been refunded"
                  /\ UNCHANGED <<Store, Gateway>>]_vars

C4_Witness ==
    \E s \in Slots :
       /\ req[s].op = "refund" /\ req[s].pc = "done" /\ req[s].code = 400
       /\ req[s].msg = "Bid has already been refunded"
       /\ Exists(req[s].bidId)
       /\ bids[req[s].bidId].isRefunded
       /\ bids[req[s].bidId].stripeDepositRefundId \in DOMAIN refunds
       /\ bids[req[s].bidId].stripeFeeRefundId = bids[req[s].bidId].stripeDepositRefundId

(* C5: a refund request on an outbid or lost bid that is not refunded and
   has no payment-intent id fails with "no payment found" as a 400-class
   response, creates no refund and leaves the bid unchanged. *)
C5_NoPaymentIs400 ==
    [][\A s \in Slots :
         LET b == req[s].bidId IN
         (/\ req[s].pc = "refund_read"
          /\ req'[s] # req[s]
          /\ Exists(b)
          /\ bids[b].status \in {"outbid", "lost"}
          /\ ~bids[b].isRefunded
          /\ bids[b].stripePaymentIntentId = NoId)
         => /\ req'[s].pc = "done"
            /\ req'[s].msg = "No payment found for this bid"
            /\ req'[s].code \in 400..499
            /\ UNCHANGED <<Store, Gateway>>]_vars

(* The positions of the three status-changing storage methods *)
WritePcs == {"approve_write", "reject_write", "status_write"}
HistPcs == {"approve_hist", "reject_hist", "status_hist"}

(* The status a status-changing request writes *)
Target(f) ==
    IF f.op = "approve" THEN "approved"
    ELSE IF f.op = "reject" THEN "rejected" ELSE f.status

LastEntry(h) == h[Len(h)]

(* C6: under every interleaving, a successful status-changing operation
   appends exactly one history entry whose previousStatus is the bid's
   stored status immediately before the operation's status write and whose
   newStatus is the stored status immediately after it. *)
C6_HistoryMatchesWrite ==
    [][\A s \in Slots :
         LET b == req[s].bidId IN
         /\ (req[s].pc \in WritePcs /\ req'[s].pc \in HistPcs /\ Exists(b))
            => /\ req[s].curStatus = bids[b].status
               /\ bids'[b].status = Target(req[s])
               /\ UNCHANGED bidHistory
         /\ (req[s].pc \in HistPcs /\ req'[s].code = 200)
            => /\ Len(bidHistory') = Len(bidHistory) + 1
               /\ SubSeq(bidHistory', 1, Len(bidHistory)) = bidHistory
               /\ LastEntry(bidHistory').bidId = b
               /\ LastEntry(bidHistory').previousStatus = req[s].curStatus
               /\ LastEntry(bidHistory').newStatus = Target(req[s])]_vars

(* The columns of a bid row, and two rows agreeing outside some of them *)
BidColumns ==
    {"customerId", "lotNumber", "maxBidAmount", "serviceFee", "depositAmount",
     "totalPaid", "status", "stripePaymentIntentId", "stripeDepositRefundId",
     "stripeFeeRefundId", "isRefunded", "approvedBy", "approvedAt",
     "rejectedBy", "rejectedAt", "notes"}

SameExcept(old, new, changed) ==
    /\ DOMAIN new = BidColumns
    /\ \A c \in BidColumns \ changed : new[c] = old[c]

OtherBidsSame(b) ==
    /\ DOMAIN bids' = DOMAIN bids
    /\ \A x \in DOMAIN bids \ {b} : bids'[x] = bids[x]

(* C7: with requests served one after the other, approve on a pending bid
   is accepted and, when it answers 200, has left the bid approved; approve
   on the bid it approved (or on any bid that is not pending) is answered
   400 "Only pending bids can be approved" and changes neither the bid nor
   the history. *)
C7_ApproveTwice ==
    /\ [](\A s \in Slots :
            (req[s].op = "approve" /\ req[s].pc = "done" /\ req[s].code = 200)
            => /\ Exists(req[s].bidId)
               /\ bids[req[s].bidId].status = "approved")
    /\ [][\A s \in Slots :
            LET b == req'[s].bidId IN
            (Starts(s, "approve") /\ Exists(b))
            => /\ UNCHANGED <<Store, Gateway>>
               /\ IF bids[b].status = "pending"
                  THEN req'[s].pc = "approve_read"
                  ELSE /\ req'[s].pc = "done"
                       /\ req'[s].code = 400
                       /\ req'[s].msg = "Only pending bids can be approved"]_vars

C7_Witness ==
    \E s \in Slots :
       /\ req[s].op = "approve" /\ req[s].pc = "done" /\ req[s].code = 400
       /\ req[s].msg = "Only pending bids can be approved"
       /\ Exists(req[s].bidId)
       /\ bids[req[s].bidId].status = "approved"
       /\ bids[req[s].bidId].approvedBy = req[s].user
       /\ Len(bidHistory) = 1
       /\ bidHistory[1].newStatus = "approved"

(* C8: with requests served one after the other, approving a pending bid
   sets status to approved, approvedBy to the acting employee and
   approvedAt, leaves every other column of the bid and every other bid
   unchanged, and appends exactly one history entry pending -> approved
   changed by that employee. *)
C8_ApproveEffect ==
    [][\A s \in Slots :
         LET b == req[s].bidId
             e == req[s].user IN
         (req[s].op = "approve" /\ req[s].pc # "done" /\ req'[s] # req[s])
         => /\ Exists(b)
            /\ UNCHANGED Gateway
            /\ req[s].pc = "approve_read"
               => /\ bids[b].status = "pending"
                  /\ req'[s].pc = "approve_write"
                  /\ UNCHANGED Store
            /\ req[s].pc = "approve_write"
               => IF req'[s].pc = "approve_hist"
                  THEN /\ bids[b].status = "pending"
                       /\ bids'[b].status = "approved"
                       /\ bids'[b].approvedBy = e
                       /\ bids'[b].approvedAt
                       /\ SameExcept(bids[b], bids'[b],
                                     {"status", "approvedBy", "approvedAt"})
                       /\ OtherBidsSame(b)
                       /\ UNCHANGED <<nextBidId, bidHistory>>
                  ELSE req'[s].code = 500 /\ UNCHANGED Store
            /\ req[s].pc = "approve_hist"
               => IF req'[s].code = 200
                  THEN /\ bidHistory' =
                            Append(bidHistory,
                                   [bidId |-> b, previousStatus |-> "pending",
                                    newStatus |-> "approved", changedBy |-> e,
                                    notes |-> LastEntry(bidHistory').notes])
                       /\ UNCHANGED <<bids, nextBidId>>
                  ELSE req'[s].code = 500 /\ UNCHANGED Store]_vars

C8_Witness ==
    \E s \in Slots :
       /\ req[s].op = "approve" /\ req[s].pc = "done" /\ req[s].code = 200
       /\ Exists(req[s].bidId)
       /\ bids[req[s].bidId].status = "approved"
       /\ bids[req[s].bidId].approvedBy = req[s].user
       /\ bids[req[s].bidId].approvedAt
       /\ bids[req[s].bidId].notes = ReasonNotes
       /\ Len(bidHistory) > 1
       /\ LastEntry(bidHistory).previousStatus = "pending"
       /\ LastEntry(bidHistory).newStatus = "approved"

(* A text that is missing, empty or made of blanks only *)
IsBlank(n) == n = NoNotes \/ \A i \in 1..Len(n) : n[i] = " "

(* C9: reject with missing, empty or whitespace-only notes is answered 400
   whatever the bid's status, and also when the bid does not exist, and
   changes no bid and no history. *)
C9_RejectNeedsNotes ==
    [][\A s \in Slots :
         (Starts(s, "reject") /\ IsBlank(req'[s].notes))
         => /\ req'[s].pc = "done"
            /\ req'[s].code = 400
            /\ req'[s].msg = "Rejection reason is required"
            /\ UNCHANGED <<Store, Gateway>>]_vars

C9_Witness ==
    \E s \in Slots :
       /\ req[s].op = "reject" /\ req[s].pc = "done" /\ req[s].code = 400
       /\ req[s].msg = "Rejection reason is required"
       /\ req[s].notes = BlankNotes
       /\ Exists(req[s].bidId)
       /\ bids[req[s].bidId].status = "won"
       /\ bids[req[s].bidId].rejectedBy = NoUser

(* C10: with requests served one after the other, reject with non-blank
   notes is accepted only on a pending bid (400 "Only pending bids can be
   rejected" otherwise, nothing changed); it sets status to rejected,
   rejectedBy to the acting employee, rejectedAt and the bid's notes to the
   reason, and appends one history entry pending -> rejected with the same
   notes. *)
C10_RejectEffect ==
    [][\A s \in Slots :
         LET b == req[s].bidId
             e == req[s].user
             n == req[s].notes IN
         /\ (Starts(s, "reject") /\ ~IsBlank(req'[s].notes) /\ Exists(req'[s].bidId))
            => /\ UNCHANGED <<Store, Gateway>>
               /\ IF bids[req'[s].bidId].status = "pending"
                  THEN req'[s].pc = "reject_read"
                  ELSE /\ req'[s].pc = "done"
                       /\ req'[s].code = 400
                       /\ req'[s].msg = "Only pending bids can be rejected"
         /\ (req[s].op = "reject" /\ req[s].pc \notin {"idle", "done"}
                                  /\ req'[s] # req[s])
            => /\ Exists(b)
               /\ ~IsBlank(n)
               /\ UNCHANGED Gateway
               /\ req[s].pc = "reject_read"
                  => /\ bids[b].status = "pending"
                     /\ req'[s].pc = "reject_write"
                     /\ UNCHANGED Store
               /\ req[s].pc = "reject_write"
                  => IF req'[s].pc = "reject_hist"
                     THEN /\ bids[b].status = "pending"
                          /\ bids'[b].status = "rejected"
                          /\ bids'[b].rejectedBy = e
                          /\ bids'[b].rejectedAt
                          /\ bids'[b].notes = n
                          /\ SameExcept(bids[b], bids'[b],
                                        {"status", "rejectedBy", "rejectedAt", "notes"})
                          /\ OtherBidsSame(b)
                          /\ UNCHANGED <<nextBidId, bidHistory>>
                     ELSE req'[s].code = 500 /\ UNCHANGED Store
               /\ req[s].pc = "reject_hist"
                  => IF req'[s].code = 200
                     THEN /\ bidHistory' =
                               Append(bidHistory,
                                      [bidId |-> b, previousStatus |-> "pending",
                                       newStatus |-> "rejected", changedBy |-> e,
                                       notes |-> n])
                          /\ UNCHANGED <<bids, nextBidId>>
                     ELSE req'[s].code = 500 /\ UNCHANGED Store]_vars

C10_Witness ==
    \E s \in Slots :
       /\ req[s].op = "reject" /\ req[s].pc = "done" /\ req[s].code = 200
       /\ req[s].notes = PaddedNotes
       /\ Exists(req[s].bidId)
       /\ bids[req[s].bidId].status = "rejected"
       /\ bids[req[s].bidId].rejectedBy = req[s].user
       /\ bids[req[s].bidId].rejectedAt
       /\ bids[req[s].bidId].notes = PaddedNotes
       /\ bidHistory # <<>>
       /\ LastEntry(bidHistory).newStatus = "rejected"
       /\ LastEntry(bidHistory).notes = PaddedNotes

(* The history rows of the bids other than b *)
HistoryOfOthers(h, b) == SelectSeq(h, LAMBDA e : e.bidId # b)

(* C11: delete of a bid whose status is neither won nor lost is answered 400
   and changes nothing; a delete that answers 200 has removed the bid and
   every history entry with its id, and has left the other bids, their
   history, the users and the employee-action log as they were; from then on
   the bid cannot be fetched and no history entry carries its id. *)
C11_DeleteEffect ==
    /\ [](/\ \A i \in DOMAIN bidHistory : bidHistory[i].bidId \in DOMAIN bids
          /\ \A b \in DOMAIN bids : b < nextBidId
          /\ \A s \in Slots :
               (req[s].op = "delete" /\ req[s].pc = "done" /\ req[s].code = 200)
               => /\ getBid(req[s].bidId) = NoBid
                  /\ getBidHistory(req[s].bidId) = <<>>)
    /\ [][\A s \in Slots :
            /\ (/\ Starts(s, "delete")
                /\ Exists(req'[s].bidId)
                /\ bids[req'[s].bidId].status \notin {"won", "lost"})
               => /\ req'[s].pc = "done"
                  /\ req'[s].code = 400
                  /\ req'[s].msg = "Only won or lost bids can be deleted"
                  /\ UNCHANGED <<Store, Gateway, Accounts>>
            /\ (req[s].pc = "delete_write" /\ req'[s].code = 200)
               => LET b == req[s].bidId IN
                  /\ DOMAIN bids' = DOMAIN bids \ {b}
                  /\ \A x \in DOMAIN bids' : bids'[x] = bids[x]
                  /\ \A i \in DOMAIN bidHistory' : bidHistory'[i].bidId # b
                  /\ HistoryOfOthers(bidHistory', b) = HistoryOfOthers(bidHistory, b)
                  /\ UNCHANGED <<nextBidId, Gateway, Accounts>>]_vars

C11_Witness ==
    \E s \in Slots :
       /\ req[s].op = "delete" /\ req[s].pc = "done" /\ req[s].code = 200
       /\ ~Exists(req[s].bidId)
       /\ \E x \in DOMAIN bids : x # req[s].bidId /\ getBidHistory(x) # <<>>
       /\ nextBidId > MaxApiBids

(* round(0.10 x m, 2 decimals) of an amount in cents: a tenth, half a cent
   rounded up *)
RoundedTenth(m) == (m + 5) \div 10

AmountColumns == {"maxBidAmount", "serviceFee", "depositAmount", "totalPaid"}

(* C12: every stored bid has depositAmount = round(0.10 x maxBidAmount, 2)
   and totalPaid = serviceFee + depositAmount, whatever body the customer
   sent to create-bid, and no later operation changes maxBidAmount,
   serviceFee, depositAmount or totalPaid. *)
C12_DerivedAmounts ==
    /\ [](\A b \in DOMAIN bids :
            /\ bids[b].depositAmount = RoundedTenth(bids[b].maxBidAmount)
            /\ bids[b].totalPaid = bids[b].serviceFee + bids[b].depositAmount)
    /\ [][\A b \in DOMAIN bids \cap DOMAIN bids' :
            \A c \in AmountColumns : bids'[b][c] = bids[b][c]]_vars

(* C13: a bid created through create-bid starts with status pending,
   isRefunded false, no payment-intent id, no refund references, no approver
   and no rejecter, no history, and the caller as customerId, whatever
   status, isRefunded or customerId the body carries. *)
C13_CreatedBid ==
    [][\A s \in Slots :
         (Starts(s, "createBid") /\ req'[s].code = 201)
         => LET b == req'[s].bidId IN
            /\ b \notin DOMAIN bids
            /\ DOMAIN bids' = DOMAIN bids \cup {b}
            /\ \A x \in DOMAIN bids : bids'[x] = bids[x]
            /\ bids'[b].status = "pending"
            /\ bids'[b].isRefunded = FALSE
            /\ bids'[b].stripePaymentIntentId = NoId
            /\ bids'[b].stripeDepositRefundId = NoId
            /\ bids'[b].stripeFeeRefundId = NoId
            /\ bids'[b].approvedBy = NoUser /\ ~bids'[b].approvedAt
            /\ bids'[b].rejectedBy = NoUser /\ ~bids'[b].rejectedAt
            /\ bids'[b].customerId = req'[s].user
            /\ \A i \in DOMAIN bidHistory' : bidHistory'[i].bidId # b
            /\ UNCHANGED <<bidHistory, Gateway, Accounts>>]_vars

(* A bid made from the hand-made body (its deposit), stored as the caller's
   and pending *)
C13_Witness ==
    \E s \in Slots :
       /\ req[s].op = "createBid" /\ req[s].pc = "done" /\ req[s].code = 201
       /\ Exists(req[s].bidId)
       /\ bids[req[s].bidId].depositAmount = TamperedBody(req[s].user).depositAmount
       /\ bids[req[s].bidId].notes = TamperedBody(req[s].user).notes
       /\ bids[req[s].bidId].customerId = req[s].user
       /\ bids[req[s].bidId].status = "pending"

OwnerOnlyOps == {"getBid", "history", "intent"}

(* C14: a get-bid, get-history or create-payment-intent request by a
   customer on a bid of another customer is answered 403 "Forbidden" with a
   response that depends on the request alone, and a request on a bid id
   that does not exist is answered 404; in both cases the handler ends
   there, calls no gateway operation and changes no state. *)
C14_OwnerOnly ==
    [][\A s \in Slots :
         (\E op \in OwnerOnlyOps : Starts(s, op))
         => LET b == req'[s].bidId
                c == req'[s].user
                f == Frame(req'[s].op, "start", b, c) IN
            /\ UNCHANGED <<Store, Gateway, Accounts>>
            /\ ~Exists(b) => req'[s] = Respond(f, 404, "Bid not found")
            /\ (Exists(b) /\ bids[b].customerId # c)
               => req'[s] = Respond(f, 403, "Forbidden")]_vars

(* Customer B is refused a bid of customer A that has a payment intent and
   a history *)
C14_Witness ==
    \E s \in Slots :
       /\ req[s].op \in OwnerOnlyOps /\ req[s].pc = "done" /\ req[s].code = 403
       /\ req[s].payload = NoPayload
       /\ Exists(req[s].bidId)
       /\ bids[req[s].bidId].customerId # req[s].user
       /\ bids[req[s].bidId].stripePaymentIntentId # NoId
       /\ getBidHistory(req[s].bidId) # <<>>

(* C15: with requests served one after the other, the status update takes
   every target of the enum from every current status: it sets the bid's
   status to the target and appends one history entry with the status the
   bid had, the target and the acting employee; a target outside the enum is
   answered 400 and changes nothing. *)
C15_AnyTarget ==
    [][\A s \in Slots :
         LET b == req[s].bidId IN
         /\ Starts(s, "status")
            => /\ UNCHANGED <<Store, Gateway, Accounts>>
               /\ IF req'[s].status \notin Statuses
                  THEN /\ req'[s].pc = "done"
                       /\ req'[s].code = 400
                       /\ req'[s].msg = "Invalid status update data"
                  ELSE Exists(req'[s].bidId) => req'[s].pc = "status_read"
         /\ (req[s].op = "status" /\ req[s].pc \notin {"idle", "done"}
                                  /\ req'[s] # req[s])
            => /\ Exists(b)
               /\ req[s].status \in Statuses
               /\ UNCHANGED <<Gateway, Accounts>>
               /\ req[s].pc = "status_read"
                  => /\ req'[s].pc = "status_write"
                     /\ req'[s].curStatus = bids[b].status
                     /\ UNCHANGED Store
               /\ req[s].pc = "status_write"
                  => IF req'[s].pc = "status_hist"
                     THEN /\ bids[b].status = req[s].curStatus
                          /\ bids'[b].status = req[s].status
                          /\ SameExcept(bids[b], bids'[b], {"status", "notes"})
                          /\ OtherBidsSame(b)
                          /\ UNCHANGED <<nextBidId, bidHistory>>
                     ELSE req'[s].code = 500 /\ UNCHANGED Store
               /\ req[s].pc = "status_hist"
                  => IF req'[s].code = 200
                     THEN /\ bids[b].status = req[s].status
                          /\ bidHistory' =
                               Append(bidHistory,
                                      [bidId |-> b,
                                       previousStatus |-> req[s].curStatus,
                                       newStatus |-> req[s].status,
                                       changedBy |-> req[s].user,
                                       notes |-> req[s].notes])
                          /\ UNCHANGED <<bids, nextBidId>>
                     ELSE req'[s].code = 500 /\ UNCHANGED Store]_vars

(* Two updates against the lifecycle: pending directly to won, then out of
   rejected *)
C15_Witness ==
    \E s \in Slots :
       /\ req[s].op = "status" /\ req[s].pc = "done" /\ req[s].code = 200
       /\ Exists(req[s].bidId)
       /\ bids[req[s].bidId].status = "approved"
       /\ Len(bidHistory) = 3
       /\ bidHistory[1].previousStatus = "pending" /\ bidHistory[1].newStatus = "won"
       /\ bidHistory[3].previousStatus = "rejected"
       /\ bidHistory[3].newStatus = "approved"
       /\ bidHistory[3].changedBy = req[s].user

(* C16: rejected is terminal: no step of any operation changes the status
   of a bid whose status is rejected. *)
C16_RejectedIsTerminal ==
    [][\A b \in DOMAIN bids :
         bids[b].status = "rejected"
         => b \in DOMAIN bids' /\ bids'[b].status = "rejected"]_vars

(* C17: role immutability: no step of any operation changes the userType of
   a user who has completed onboarding (isVerified), and no step removes
   such a user. *)
C17_RoleImmutable ==
    [][\A u \in DOMAIN users :
         users[u].isVerified
         => u \in DOMAIN users' /\ users'[u].userType = users[u].userType]_vars

(* C18: deactivating an employee.  A missing target is answered 404 and a
   target that is not an employee 400, with no user changed and no
   EmployeeAction appended; otherwise the status step sets only the target's
   isActive to FALSE (row kept, userType kept) and the log step appends the
   one EmployeeAction "deleted" with the target's id and the acting
   super-admin as performedBy. *)
C18_Deactivate ==
    [][\A s \in Slots :
         /\ Starts(s, "employeeDelete")
            => /\ UNCHANGED Accounts
               /\ LET e == req'[s].target IN
                  IF e \notin DOMAIN users
                  THEN req'[s].pc = "done" /\ req'[s].code = 404
                  ELSE IF users[e].userType # "employee"
                  THEN req'[s].pc = "done" /\ req'[s].code = 400
                  ELSE req'[s].pc = "employee_status"
         /\ (req[s].pc = "employee_status" /\ req'[s] # req[s])
            => LET e == req[s].target IN
               \/ /\ req'[s].pc = "done" /\ req'[s].code = 500
                  /\ UNCHANGED Accounts
               \/ /\ req'[s].pc = "employee_log"
                  /\ DOMAIN users' = DOMAIN users
                  /\ users'[e] = [users[e] EXCEPT !.isActive = FALSE]
                  /\ users'[e].userType = "employee"
                  /\ \A u \in DOMAIN users \ {e} : users'[u] = users[u]
                  /\ UNCHANGED employeeActions
         /\ (req[s].pc = "employee_log" /\ req'[s] # req[s])
            => \/ /\ req'[s].pc = "done" /\ req'[s].code = 500
                  /\ UNCHANGED Accounts
               \/ /\ req'[s].pc = "done" /\ req'[s].code = 200
                  /\ UNCHANGED users
                  /\ Len(employeeActions') = Len(employeeActions) + 1
                  /\ SubSeq(employeeActions', 1, Len(employeeActions))
                       = employeeActions
                  /\ LET a == employeeActions'[Len(employeeActions')] IN
                       /\ a.actionType = "deleted"
                       /\ a.employeeId = req[s].target
                       /\ a.performedBy = req[s].user
                       /\ users[a.performedBy].userType = "super_admin"
         /\ (req[s].op = "employeeDelete" /\ req[s].pc = "done")
            => UNCHANGED Accounts]_vars

(* An employee has been deactivated: the request was answered 200, the row
   is still there as an inactive employee, and the one EmployeeAction names
   it; a request for a customer was refused before *)
C18_Witness ==
    \E s \in Slots :
      /\ req[s].op = "employeeDelete" /\ req[s].pc = "done"
      /\ req[s].code = 200
      /\ req[s].target \in DOMAIN users
      /\ users[req[s].target].userType = "employee"
      /\ ~users[req[s].target].isActive
      /\ Len(employeeActions) = 1
      /\ employeeActions[1].employeeId = req[s].target
      /\ employeeActions[1].actionType = "deleted"
      /\ nreq >= 2

(* C19: a gateway failure is propagated.  The steps of refund and of
   create-payment-intent up to and including the gateway call write nothing
   to the store; a gateway call that creates no object ends the request
   with an error response, so the bid's payment fields, status and history
   are what they were before the request; a retrieval of the existing
   intent is answered 200 or 500 and writes nothing. *)
C19_GatewayFailurePropagated ==
    [][\A s \in Slots :
         /\ (Starts(s, "refund") \/ Starts(s, "intent")) => UNCHANGED Store
         /\ (req[s].pc = "refund_read" /\ req'[s] # req[s]) => UNCHANGED Store
         /\ (req[s].pc \in {"refund_gateway", "intent_create"}
               /\ req'[s] # req[s] /\ UNCHANGED Gateway)
            => /\ req'[s].pc = "done"
               /\ req'[s].code >= 400
               /\ UNCHANGED Store
         /\ (req[s].pc \in {"refund_gateway", "intent_create"}
               /\ req'[s] # req[s] /\ ~UNCHANGED Gateway)
            => /\ req'[s].pc \in {"refund_write", "intent_write"}
               /\ UNCHANGED Store
         /\ (req[s].pc = "intent_retrieve" /\ req'[s] # req[s])
            => /\ req'[s].pc = "done"
               /\ req'[s].code \in {200, 500}
               /\ UNCHANGED <<Store, Gateway>>]_vars

(* A refund of a paid, lost or outbid bid whose gateway call failed: the
   answer is 500, the gateway holds no refund, and the bid still has its
   payment intent, no refund references and isRefunded FALSE *)
C19_Witness ==
    \E s \in Slots :
      /\ req[s].op = "refund" /\ req[s].pc = "done"
      /\ req[s].code = 500
      /\ refunds = <<>>
      /\ Exists(req[s].bidId)
      /\ LET bid == bids[req[s].bidId] IN
           /\ bid.status \in {"outbid", "lost"}
           /\ bid.stripePaymentIntentId # NoId
           /\ bid.stripeDepositRefundId = NoId
           /\ bid.stripeFeeRefundId = NoId
           /\ ~bid.isRefunded
      /\ Len(bidHistory) = 1

(* The steps of updateBidStatus that slot s may take next *)
StatusPcs == {"status_read", "status_write", "status_hist"}

(* Both slots hold an answered status update of the same bid *)
BothStatusDone ==
    /\ \A s \in Slots : /\ req[s].op = "status" /\ req[s].pc = "done"
                        /\ req[s].code = 200
    /\ req[1].bidId = req[2].bidId

(* C20: two generic status updates of one bid, their read, write and
   history steps interleaved in any order.  Neither waits for the other
   (the next step of each is always enabled); every status write stores its
   own target whatever the other update has stored since the read, so the
   final status is the target of the write that happened last; every
   history step that succeeds appends exactly one entry with its own
   target as newStatus; and when the two updates are the only requests
   after the creation and both were answered 200, the history holds
   exactly their two entries and the status is one of the two targets. *)
C20_ConcurrentStatusUpdates ==
    /\ [](\A s \in Slots :
            (req[s].op = "status" /\ req[s].pc \in StatusPcs)
            => ENABLED (StatusRead(s) \/ StatusWrite(s) \/ StatusHistory(s)))
    /\ [](BothStatusDone /\ nreq = 3
          => /\ Exists(req[1].bidId)
             /\ bids[req[1].bidId].status \in {req[1].status, req[2].status}
             /\ Len(bidHistory) = 2
             /\ \E i, j \in 1..2 :
                  /\ i # j
                  /\ bidHistory[i].newStatus = req[1].status
                  /\ bidHistory[i].changedBy = req[1].user
                  /\ bidHistory[j].newStatus = req[2].status
                  /\ bidHistory[j].changedBy = req[2].user)
    /\ [][\A s \in Slots :
            /\ (req[s].pc = "status_read" /\ req'[s] # req[s])
               => UNCHANGED <<Store, Gateway>>
            /\ (req[s].pc = "status_write" /\ req'[s].pc = "status_hist"
                  /\ Exists(req[s].bidId))
               => /\ bids'[req[s].bidId].status = req[s].status
                  /\ UNCHANGED bidHistory
            /\ (req[s].pc = "status_hist" /\ req'[s] # req[s])
               => \/ /\ req'[s].code = 500 /\ UNCHANGED Store
                  \/ /\ req'[s].code = 200
                     /\ UNCHANGED bids
                     /\ Len(bidHistory') = Len(bidHistory) + 1
                     /\ SubSeq(bidHistory', 1, Len(bidHistory)) = bidHistory
                     /\ LET e == bidHistory'[Len(bidHistory')] IN
                          /\ e.bidId = req[s].bidId
                          /\ e.newStatus = req[s].status
                          /\ e.previousStatus = req[s].curStatus]_vars

(* Both updates read pending before either wrote, both were answered 200,
   and the update whose entry was appended first wrote last: the history
   holds both transitions and the status is the first entry's target *)
C20_Witness ==
    /\ BothStatusDone /\ nreq = 3
    /\ req[1].status # req[2].status
    /\ Len(bidHistory) = 2
    /\ bidHistory[1].previousStatus = "pending"
    /\ bidHistory[2].previousStatus = "pending"
    /\ bidHistory[1].newStatus # bidHistory[2].newStatus
    /\ Exists(req[1].bidId)
    /\ bids[req[1].bidId].status = bidHistory[1].newStatus

(* C21: approve and reject are applied only to a pending bid under every
   interleaving: at the step in which an approve or reject request writes
   its status the stored status is pending, and the history entry the
   request appends has previousStatus pending. *)
C21_ApproveRejectFromPending ==
    [][\A s \in Slots :
         LET b == req[s].bidId IN
         /\ (req[s].pc \in {"approve_write", "reject_write"}
               /\ req'[s].pc \in HistPcs /\ Exists(b))
            => bids[b].status = "pending"
         /\ (req[s].pc \in {"approve_hist", "reject_hist"}
               /\ req'[s].code = 200 /\ bidHistory' # bidHistory)
            => LastEntry(bidHistory').previousStatus = "pending"]_vars

(* C22: a gateway refund is issued only for a bid whose stored status is
   outbid or lost at the step of the gateway call, under every interleaving
   of the refund request with other requests on the bid. *)
C22_RefundOnlyWhenLosing ==
    [][\A s \in Slots :
         (req[s].pc = "refund_gateway" /\ refunds' # refunds)
         => /\ Exists(req[s].bidId)
            /\ bids[req[s].bidId].status \in {"outbid", "lost"}]_vars

(* C23: the refunded flag is monotonic: no step turns a bid's isRefunded
   from TRUE to FALSE or changes the refund references of a refunded bid
   while the bid exists. *)
C23_RefundedStays ==
    [][\A b \in DOMAIN bids \cap DOMAIN bids' :
         bids[b].isRefunded
         => /\ bids'[b].isRefunded
            /\ bids'[b].stripeDepositRefundId = bids[b].stripeDepositRefundId
            /\ bids'[b].stripeFeeRefundId = bids[b].stripeFeeRefundId]_vars

(* The history entries of bid b, in append order *)
HistoryOf(h, b) == SelectSeq(h, LAMBDA e : e.bidId = b)

(* C24: bid history is append-only.  Every step leaves the history as it
   was, or appends one entry for the bid of the request that takes the step
   (a bid that exists), or is the delete of a bid and removes exactly the
   entries of that bid; so an entry is never modified, the history of a bid
   that still exists only grows, and the entries of other bids are neither
   added to, changed nor removed. *)
C24_HistoryAppendOnly ==
    [][\/ UNCHANGED bidHistory
       \/ \E s \in Slots :
            /\ req[s].pc \in HistPcs
            /\ Exists(req[s].bidId)
            /\ UNCHANGED bids
            /\ Len(bidHistory') = Len(bidHistory) + 1
            /\ SubSeq(bidHistory', 1, Len(bidHistory)) = bidHistory
            /\ LastEntry(bidHistory').bidId = req[s].bidId
       \/ \E s \in Slots :
            /\ req[s].pc = "delete_write"
            /\ Exists(req[s].bidId)
            /\ req[s].bidId \notin DOMAIN bids'
            /\ HistoryOf(bidHistory', req[s].bidId) = <<>>
            /\ bidHistory' = HistoryOfOthers(bidHistory, req[s].bidId)]_vars

(* Two bids had history; the second bid was then deleted with its entry and
   the first bid's entry is still there *)
C24_Witness ==
    /\ \E s \in Slots : /\ req[s].op = "delete" /\ req[s].pc = "done"
                        /\ req[s].code = 200 /\ req[s].bidId = 2
    /\ DOMAIN bids = {1}
    /\ Len(bidHistory) = 1
    /\ bidHistory[1].bidId = 1
    /\ bidHistory[1].newStatus = "approved"
    /\ bids[1].status = "approved"
    /\ nreq = 5

PaymentColumns ==
    {"stripePaymentIntentId", "stripeDepositRefundId", "stripeFeeRefundId",
     "isRefunded"}

(* The route of the request that slot s is serving in this step *)
StepOp(s) == IF req[s].pc = "idle" THEN req'[s].op ELSE req[s].op

(* C25: payment updates and status updates do not interfere.  Under every
   interleaving a step of refund or create-payment-intent changes at most
   the payment columns of a bid (never status, notes, approver or rejecter
   columns) and no history; a step of approve, reject or the generic status
   update changes no payment column; neither removes a bid. *)
C25_PaymentAndStatusApart ==
    [][\A s \in Slots :
         req'[s] # req[s]
         => /\ StepOp(s) \in {"refund", "intent"}
               => /\ DOMAIN bids' = DOMAIN bids
                  /\ \A b \in DOMAIN bids :
                       SameExcept(bids[b], bids'[b], PaymentColumns)
                  /\ UNCHANGED bidHistory
            /\ StepOp(s) \in {"approve", "reject", "status"}
               => /\ DOMAIN bids' = DOMAIN bids
                  /\ \A b \in DOMAIN bids :
                       SameExcept(bids[b], bids'[b], BidColumns \ PaymentColumns)]_vars

(* A payment-intent request read the bid as pending and has its intent from
   the gateway; before it stores the id, a status update on the same bid
   was answered 200 and the stored status is lost *)
C25_Witness ==
    /\ req[1].op = "intent" /\ req[1].pc = "intent_write"
    /\ req[1].bid.status = "pending"
    /\ req[2].op = "status" /\ req[2].pc = "done" /\ req[2].code = 200
    /\ req[2].bidId = req[1].bidId
    /\ Exists(req[1].bidId)
    /\ bids[req[1].bidId].status = "lost"
    /\ bids[req[1].bidId].stripePaymentIntentId = NoId
    /\ Len(bidHistory) = 1

(* The routes that change a bid's status *)
StatusOps == {"approve", "reject", "status"}

(* No status-changing request on bid b is in progress *)
StatusQuiet(b) ==
    \A s \in Slots :
      ~(req[s].op \in StatusOps /\ req[s].bidId = b
          /\ req[s].pc \notin {"idle", "done"})

(* The entries of h form a chain that starts at pending *)
IsChain(h) ==
    /\ h # <<>> => h[1].previousStatus = "pending"
    /\ \A i \in 1..(Len(h) - 1) : h[i + 1].previousStatus = h[i].newStatus

(* C26: status and history agree under every interleaving and every store
   failure: whenever no status-changing request on a bid is in progress,
   the bid's status is the newStatus of its newest history entry (pending
   when it has none), and its history in append order is a chain starting
   at pending. *)
C26_StatusMatchesHistory ==
    \A b \in DOMAIN bids :
      StatusQuiet(b)
      => LET h == HistoryOf(bidHistory, b) IN
           /\ bids[b].status = IF h = <<>> THEN "pending"
                               ELSE LastEntry(h).newStatus
           /\ IsChain(h)

(* No refund request on bid b is in progress *)
RefundQuiet(b) ==
    \A s \in Slots :
      ~(req[s].op = "refund" /\ req[s].bidId = b
          /\ req[s].pc \notin {"idle", "done"})

(* The gateway's refunds of payment intent i *)
RefundsOfIntent(i) == {r \in DOMAIN refunds : refunds[r].payment_intent = i}

(* C27: gateway and store agree on refunds, also when the store write after
   a successful gateway refund fails: whenever no refund request on a bid
   is in progress, the gateway has a refund of the bid's payment intent
   exactly when the bid's isRefunded is TRUE, and then both stored refund
   references are the id of that refund. *)
C27_GatewayMatchesStore ==
    \A b \in DOMAIN bids :
      RefundQuiet(b)
      => LET issued == RefundsOfIntent(bids[b].stripePaymentIntentId) IN
           /\ bids[b].isRefunded <=> issued # {}
           /\ bids[b].isRefunded
              => /\ issued = {bids[b].stripeDepositRefundId}
                 /\ bids[b].stripeFeeRefundId = bids[b].stripeDepositRefundId

(* C28: approval and rejection are mutually exclusive: in every reachable
   state no bid has both approvedBy and rejectedBy set. *)
C28_ApprovedXorRejected ==
    \A b \in DOMAIN bids :
      ~(bids[b].approvedBy # NoUser /\ bids[b].rejectedBy # NoUser)

(* C29: referential integrity of history under every interleaving of a
   delete with approve, reject or status update on the same bid: in every
   reachable state every history entry refers to a bid that exists, and a
   step that removes a bid finds its stored status won or lost. *)
C29_DeleteIntegrity ==
    /\ [](\A i \in DOMAIN bidHistory : Exists(bidHistory[i].bidId))
    /\ [][\A b \in DOMAIN bids :
            b \notin DOMAIN bids' => bids[b].status \in {"won", "lost"}]_vars

(* A bid that was paid for, lost, and has not been refunded *)
RefundDue(bid) ==
    /\ bid.stripePaymentIntentId # NoId
    /\ bid.status = "lost"
    /\ ~bid.isRefunded

(* C30: a paid losing bid stays refundable: no step removes a bid that has
   a stored payment-intent id, status lost and isRefunded FALSE. *)
C30_PaidLosingBidKept ==
    [][\A b \in DOMAIN bids : RefundDue(bids[b]) => b \in DOMAIN bids']_vars

====
